---- MODULE Spec2Model ----
(***************************************************************************)
(* A model of prettytb: the traceback extractor and report assembler       *)
(* (prettytb/_error_report.py), the colour post-processor                  *)
(* (prettytb/_inject_colors.py), the logexc dispatcher (prettytb/logexc.py)*)
(* and its e-mail subclass (prettytb/examples/emaillogexc.py).             *)
(*                                                                         *)
(* Text.  A Python str is modelled by its split on "\n": a non-empty       *)
(* sequence of lines, each line a sequence of atoms (strings that hold no  *)
(* line break).  "" is << <<>> >> and "\n" is << <<>>, <<>> >>.  A run of  *)
(* n blanks is n atoms " ".  Names of variables, classes and messages are  *)
(* sequences of one-character atoms.                                       *)
(***************************************************************************)
EXTENDS Naturals, Sequences, FiniteSets, TLC

VARIABLES
    call,          \* SpecReport, SpecColors: the function called, with its arguments
    result,        \* SpecReport, SpecColors: what the call returned or raised
    self,          \* the logexc / emaillogexc instance
    usage,         \* how the client code uses the instance
    config,        \* the class attributes of emaillogexc
    colorama,      \* whether colorama imports and initialises
    caught,        \* the exception being handled
    ambient,       \* sys.exc_info() and sys.tracebacklimit while it is handled
    pc,            \* where the dispatcher is
    report,        \* what get_error_report returned or raised
    failure,       \* the exception the except clause of _handle_exception caught
    pending,       \* the report lines handle_error_report has yet to log
    log,           \* the lines passed to the log sink, in order
    raised,        \* the exception that left the dispatcher for the caller
    sent           \* the number of e-mail send attempts

(***************************************************************************)
(* Bounds of the model.                                                    *)
(***************************************************************************)
MaxDepth == 3
MaxLimit == 3
MaxSkip == 2
MaxShort == 1
MaxLines == 4

(***************************************************************************)
(* str primitives.                                                         *)
(***************************************************************************)
Empty == << <<>> >>

NL == << <<>>, <<>> >>

Txt(line) == << line >>

Cat(s, t) == SubSeq(s, 1, Len(s) - 1) \o << s[Len(s)] \o t[1] >> \o Tail(t)

Spaces(n) == [i \in 1..n |-> " "]

Drop(k, s) == SubSeq(s, k + 1, Len(s))

RECURSIVE LStripLine(_)
LStripLine(l) == IF l # <<>> /\ Head(l) = " " THEN LStripLine(Tail(l)) ELSE l

RECURSIVE RStripLine(_)
RStripLine(l) ==
    IF l # <<>> /\ l[Len(l)] = " " THEN RStripLine(SubSeq(l, 1, Len(l) - 1)) ELSE l

RECURSIVE RStrip(_)
RStrip(s) ==
    IF Len(s) > 1 /\ RStripLine(s[Len(s)]) = <<>>
    THEN RStrip(SubSeq(s, 1, Len(s) - 1))
    ELSE [s EXCEPT ![Len(s)] = RStripLine(@)]

RECURSIVE LStrip(_)
LStrip(s) ==
    IF Len(s) > 1 /\ LStripLine(s[1]) = <<>>
    THEN LStrip(Tail(s))
    ELSE [s EXCEPT ![1] = LStripLine(@)]

Strip(s) == LStrip(RStrip(s))

RECURSIVE JoinNL(_)
JoinNL(l) ==
    IF l = <<>> THEN Empty
    ELSE IF Len(l) = 1 THEN l[1]
    ELSE Cat(Cat(l[1], NL), JoinNL(Tail(l)))

Split(s) == [i \in 1..Len(s) |-> Txt(s[i])]

RECURSIVE Chars(_)
Chars(s) ==
    IF s = Empty THEN <<>>
    ELSE IF s[1] = <<>> THEN << NL >> \o Chars(Tail(s))
    ELSE << Txt(<< s[1][1] >>) >> \o Chars([s EXCEPT ![1] = Tail(@)])

(***************************************************************************)
(* Names: sequences of characters, compared as Python compares             *)
(* tuple(key.lower()).                                                     *)
(***************************************************************************)
Ord(c) ==
    CASE c = "A" -> 65 [] c = "B" -> 66 [] c = "_" -> 95
      [] c = "a" -> 97 [] c = "b" -> 98 [] c = "c" -> 99
      [] c = "d" -> 100 [] c = "m" -> 109 [] c = "x" -> 120
      [] c = "y" -> 121
      [] OTHER -> 122

Lower(c) == CASE c = "A" -> "a" [] c = "B" -> "b" [] OTHER -> c

KeyLower(k) == [i \in DOMAIN k |-> Lower(k[i])]

RECURSIVE TupleLess(_, _)
TupleLess(a, b) ==
    IF b = <<>> THEN FALSE
    ELSE IF a = <<>> THEN TRUE
    ELSE IF Ord(Head(a)) # Ord(Head(b)) THEN Ord(Head(a)) < Ord(Head(b))
    ELSE TupleLess(Tail(a), Tail(b))

SortKey(item) == KeyLower(item[1])

RECURSIVE InsertSorted(_, _)
InsertSorted(x, s) ==
    IF s = <<>> THEN << x >>
    ELSE IF TupleLess(SortKey(x), SortKey(Head(s))) THEN << x >> \o s
    ELSE << Head(s) >> \o InsertSorted(x, Tail(s))

RECURSIVE Sorted(_)
Sorted(items) ==
    IF items = <<>> THEN <<>>
    ELSE InsertSorted(items[Len(items)], Sorted(SubSeq(items, 1, Len(items) - 1)))

IsDunder(key) ==
    /\ Len(key) >= 2
    /\ key[1] = "_" /\ key[2] = "_"
    /\ key[Len(key) - 1] = "_" /\ key[Len(key)] = "_"

(***************************************************************************)
(* Results of calls: a returned value, tagged with its Python type, or a   *)
(* raised exception (its class name and message).                          *)
(***************************************************************************)
NoExc == [cls |-> <<>>, msg |-> <<>>]

Ret(ty, v) == [ok |-> TRUE, ty |-> ty, v |-> v, exc |-> NoExc]

Raise(cls, msg) == [ok |-> FALSE, ty |-> "raise", v |-> <<>>, exc |-> [cls |-> cls, msg |-> msg]]

(***************************************************************************)
(* Values of local variables.  width is len(repr(value)); wrapped is what  *)
(* pprint gives when the one-line form does not fit.                       *)
(***************************************************************************)
Val(cls, width, repr, wrapped, reprRaises, posixRaises) ==
    [cls |-> cls, width |-> width, repr |-> repr, wrapped |-> wrapped,
     reprRaises |-> reprRaises, posix |-> <<"c:/x">>, posixRaises |-> posixRaises]

IntOne == Val("int", 1, <<"1">>, << <<"1">> >>, "none", FALSE)

ListLong == Val("list", 9, <<"[10, 200]">>, << <<"[10,">>, <<" ", "200]">> >>, "none", FALSE)

Unprintable == Val("Bad", 0, <<>>, Empty, "RuntimeError", FALSE)

Module == Val("module", 8, <<"<module>">>, << <<"<module>">> >>, "none", FALSE)

WinPath == Val("WindowsPath", 19, <<"WindowsPath('c:/x')">>, Empty, "none", FALSE)

WinPathOld == Val("WindowsPath", 0, <<>>, Empty, "ValueError", FALSE)

WinPathBroken == Val("WindowsPath", 0, <<>>, Empty, "ValueError", TRUE)

WinPathError == Val("WindowsPath", 0, <<>>, Empty, "RuntimeError", FALSE)

Values ==
    {IntOne, ListLong, Unprintable, Module, WinPath, WinPathOld, WinPathBroken,
     WinPathError}

Keys == { <<"a">>, <<"B">>, <<"a", "b">>, <<"_", "_", "d", "_", "_">>, <<"_", "_">> }

(***************************************************************************)
(* Value Formatter.                                                        *)
(***************************************************************************)
pformat(value, width) ==
    IF value.reprRaises # "none" THEN Raise(<<value.reprRaises>>, <<>>)
    ELSE IF value.width <= width THEN Ret("list", << Txt(value.repr) >>)
    ELSE Ret("list", Split(value.wrapped))

_get_value_formatted(value, prefix_length) ==
    IF value.cls = "WindowsPath"
    THEN IF value.reprRaises = "none" THEN Ret("str", Txt(value.repr))
         ELSE IF value.reprRaises = "ValueError"
         THEN IF value.posixRaises THEN Raise(<<"OSError">>, <<>>)
              ELSE Ret("str", Txt(<<value.cls, "(", "'">> \o value.posix \o <<"'", ")">>))
         ELSE Raise(<<value.reprRaises>>, <<>>)
    ELSE LET p == pformat(value, prefix_length) IN
         IF ~p.ok THEN p
         ELSE LET pformat_parts ==
                      [i \in 1..Len(p.v) |->
                          IF i = 1 THEN p.v[i]
                          ELSE Txt(Spaces(prefix_length) \o p.v[i][1])]
              IN Ret("str", JoinNL(pformat_parts))

CantPrint == "-Can't print value-"

\* A variant whose fallback leaves out the type name.
_get_variable_key_value_line_NoType(key, value) ==
    LET fallback_result == Cat(NL, Txt(Spaces(4) \o key \o <<" = ", CantPrint>>))
        value_formatted == _get_value_formatted(value, 4 + Len(key) + 3)
    IN IF value_formatted.ok
       THEN Cat(Cat(NL, Txt(Spaces(4) \o key \o <<" = ">>)), value_formatted.v)
       ELSE fallback_result

_get_variable_key_value_line(key, value) ==
    LET fallback_result == Cat(NL, Txt(Spaces(4) \o key \o <<" = ", CantPrint>>))
        prefix_length == 4 + Len(key) + 3
        value_formatted == _get_value_formatted(value, prefix_length)
    IN IF value_formatted.ok
       THEN Cat(Cat(NL, Txt(Spaces(4) \o key \o <<" = ">>)), value_formatted.v)
       ELSE Cat(fallback_result, Txt(<<" ", "[", value.cls, "]">>))

(***************************************************************************)
(* Frames of a traceback chain.  src is the line linecache resolves for    *)
(* the frame, <<>> when it resolves none; locals is f_locals.items().      *)
(***************************************************************************)
Frame(filename, lineno, name, src, locals) ==
    [filename |-> filename, lineno |-> lineno, name |-> name, src |-> src,
     locals |-> locals]

FrameF ==
    Frame(<<"app", ".py">>, "3", "f", Spaces(4) \o <<"g()">>,
          << << <<"a", "b">>, IntOne >>, << <<"B">>, ListLong >>, << <<"a">>, ListLong >> >>)

FrameG ==
    Frame(<<"app", ".py">>, "7", "g", Spaces(4) \o <<"1/0">>,
          << << <<"x">>, Unprintable >>, << <<"_", "_", "d", "_", "_">>, IntOne >>,
             << <<"m">>, Module >>, << <<"y">>, WinPathOld >> >>)

FrameExec ==
    Frame(<<"<string>">>, "1", "<module>", <<>>, << << <<"y">>, IntOne >> >>)

FrameRunMain ==
    Frame(<<"lib/", "runpy", ".py">>, "2", "_run_module_as_main", <<"_run_code()">>,
          << << <<"m">>, IntOne >> >>)

FrameRunCode ==
    Frame(<<"runpy", ".py">>, "5", "_run_code", <<>>, <<>>)

FrameRunOther ==
    Frame(<<"runpy", ".py">>, "9", "run_path", Spaces(4) \o <<"f()">>, <<>>)

FramePool == {FrameF, FrameG, FrameExec, FrameRunMain, FrameRunCode, FrameRunOther}

RECURSIVE SeqsUpTo(_, _)
SeqsUpTo(S, n) ==
    IF n = 0 THEN { <<>> }
    ELSE LET shorter == SeqsUpTo(S, n - 1)
         IN shorter \cup { Append(s, x) : s \in { t \in shorter : Len(t) = n - 1 }, x \in S }

Chains == SeqsUpTo(FramePool, MaxDepth)

EndsWith(s, suffix) ==
    Len(s) >= Len(suffix) /\ SubSeq(s, Len(s) - Len(suffix) + 1, Len(s)) = suffix

IsBootstrap(f) ==
    /\ EndsWith(f.filename, <<"runpy", ".py">>)
    /\ f.name \in {"_run_module_as_main", "_run_code"}

(***************************************************************************)
(* Frame Extractor.  limit is [set, n]: set = FALSE is Python's None.      *)
(***************************************************************************)
NoLimit == [set |-> FALSE, n |-> 0]

Lim(n) == [set |-> TRUE, n |-> n]

NoLine == [some |-> FALSE, text |-> Empty]

RECURSIVE InjectLocals(_, _)
InjectLocals(line, sorted_vars) ==
    IF sorted_vars = <<>> THEN line
    ELSE LET key == Head(sorted_vars)[1]
             value == Head(sorted_vars)[2]
         IN IF IsDunder(key) \/ value.cls = "module"
            THEN InjectLocals(line, Tail(sorted_vars))
            ELSE InjectLocals(Cat(line, _get_variable_key_value_line(key, value)),
                              Tail(sorted_vars))

FrameLine(f) ==
    IF f.src # <<>>
    THEN [some |-> TRUE,
          text |-> InjectLocals(Cat(Strip(Txt(f.src)), NL), Sorted(f.locals))]
    ELSE NoLine

Entry(f, line) ==
    [filename |-> f.filename, lineno |-> f.lineno, name |-> f.name, line |-> line]

\* A variant that counts skipped bootstrap frames against the limit.
RECURSIVE ExtractLoop_CountsBootstrap(_, _, _, _)
ExtractLoop_CountsBootstrap(traceback_, limit, n, acc) ==
    IF traceback_ # <<>> /\ (~limit.set \/ n < limit.n)
    THEN LET f == Head(traceback_) IN
         IF IsBootstrap(f)
         THEN ExtractLoop_CountsBootstrap(Tail(traceback_), limit, n + 1, acc)
         ELSE ExtractLoop_CountsBootstrap(Tail(traceback_), limit, n + 1,
                                          Append(acc, Entry(f, FrameLine(f))))
    ELSE acc

RECURSIVE ExtractLoop(_, _, _, _)
ExtractLoop(traceback_, limit, n, acc) ==
    IF traceback_ # <<>> /\ (~limit.set \/ n < limit.n)
    THEN LET f == Head(traceback_) IN
         IF IsBootstrap(f)
         THEN ExtractLoop(Tail(traceback_), limit, n, acc)
         ELSE ExtractLoop(Tail(traceback_), limit, n + 1, Append(acc, Entry(f, FrameLine(f))))
    ELSE acc

_extract_traceback_list(traceback_, limit, tracebacklimit) ==
    ExtractLoop(traceback_, IF limit.set THEN limit ELSE tracebacklimit, 0, <<>>)

(***************************************************************************)
(* traceback.format_list and traceback.format_exception of the standard    *)
(* library (CPython 3.11), which get_traceback calls.                      *)
(***************************************************************************)
FileAtom == "File \""

HeaderLine(e) ==
    Spaces(2) \o << FileAtom >> \o e.filename \o << "\", line ", e.lineno, ", in ", e.name >>

FormatEntry(e) ==
    LET row == Cat(Txt(HeaderLine(e)), NL) IN
    IF e.line.some /\ Strip(e.line.text) # Empty
    THEN Cat(row, Cat(Cat(Txt(Spaces(4)), Strip(e.line.text)), NL))
    ELSE row

format_list(extracted_list) ==
    [i \in 1..Len(extracted_list) |-> FormatEntry(extracted_list[i])]

StdEntry(f) ==
    Entry(f, IF f.src # <<>> THEN [some |-> TRUE, text |-> Strip(Txt(f.src))] ELSE NoLine)

TracebackHeader == "Traceback (most recent call last):"

ExceptionOnly(type, msg) ==
    Cat(Txt(type \o (IF msg = <<>> THEN <<>> ELSE <<":", " ">> \o msg)), NL)

format_exception(exc_type, exc_msg, exc_traceback, limit, tracebacklimit) ==
    LET lim == IF limit.set THEN limit ELSE tracebacklimit
        taken == IF lim.set /\ lim.n < Len(exc_traceback)
                 THEN SubSeq(exc_traceback, 1, lim.n) ELSE exc_traceback
        stack == [i \in 1..Len(taken) |-> StdEntry(taken[i])]
    IN (IF stack # <<>> THEN << Cat(Txt(<< TracebackHeader >>), NL) >> ELSE <<>>)
       \o format_list(stack)
       \o << ExceptionOnly(exc_type, exc_msg) >>

(***************************************************************************)
(* Report Assembler.  env is the ambient state the code reads:             *)
(* sys.exc_info() and sys.tracebacklimit.                                  *)
(***************************************************************************)
DefaultLimit == 24

Info(arity, type, msg, tb) == [arity |-> arity, type |-> type, msg |-> msg, tb |-> tb]

NoInfo == Info(3, <<"NoneType">>, <<"None">>, <<>>)

NotGiven == [given |-> FALSE, info |-> NoInfo]

Given(info) == [given |-> TRUE, info |-> info]

get_traceback(limit, as_list, return_locals, exception_info, skip_frames, env) ==
    LET info == IF exception_info.given THEN exception_info.info ELSE env.exc_info
        error_lines ==
            IF return_locals
            THEN format_list(_extract_traceback_list(info.tb, limit, env.tracebacklimit))
            ELSE format_exception(info.type, info.msg, info.tb, limit, env.tracebacklimit)
    IN IF info.arity # 3
       THEN Raise(<<"ValueError">>, <<"not enough values to unpack">>)
       ELSE IF as_list
       THEN Ret("list", Drop(skip_frames, [i \in 1..Len(error_lines) |-> RStrip(error_lines[i])]))
       ELSE Ret("str", JoinNL(Drop(skip_frames, error_lines)))

Summary(exception) ==
    Cat(NL, Cat(Txt(exception.cls \o <<":", " ">> \o exception.msg), NL))

\* A variant that looks at the exc_info attachment before the stored report.
get_error_report_ExcInfoFirst(exception, kwargs, env) ==
    IF exception.hasStored /\ ~exception.hasExcInfo
    THEN Ret("stored", exception.stored)
    ELSE LET tb == get_traceback(kwargs.limit, kwargs.as_list, kwargs.return_locals,
                                 IF exception.hasExcInfo THEN Given(exception.exc_info)
                                 ELSE kwargs.exception_info,
                                 kwargs.skip_frames, env)
         IN IF ~tb.ok THEN tb
            ELSE IF exception.hasStored THEN Ret("stored", exception.stored)
            ELSE IF tb.ty = "list"
            THEN Ret("list", tb.v \o Chars(Summary(exception)))
            ELSE Ret("str", Cat(tb.v, Summary(exception)))

get_error_report(exception, kwargs, env) ==
    IF exception.hasStored
    THEN Ret("stored", exception.stored)
    ELSE LET exception_info ==
                 IF exception.hasExcInfo THEN Given(exception.exc_info)
                 ELSE kwargs.exception_info
             tb == get_traceback(kwargs.limit, kwargs.as_list, kwargs.return_locals,
                                 exception_info, kwargs.skip_frames, env)
         IN IF ~tb.ok THEN tb
            ELSE IF tb.ty = "list"
            THEN Ret("list", tb.v \o Chars(Summary(exception)))
            ELSE Ret("str", Cat(tb.v, Summary(exception)))

(***************************************************************************)
(* Colour post-processor (_inject_colors.py).  A str is already held as    *)
(* its lines, so split("\n") and "\n".join are the identity on it.         *)
(***************************************************************************)
BRIGHT == "<Style.BRIGHT>"

RESET_ALL == "<Style.RESET_ALL>"

BACK_GREEN == "<Back.GREEN>"

FORE_YELLOW == "<Fore.YELLOW>"

FORE_RED == "<Fore.RED>"

Numbers == {"1", "2", "3", "5", "7", "9", "198", "207"}

LineAtom == "\", line "

InAtom == ", in "

FirstIndex(l, atom) ==
    IF \E i \in 1..Len(l) : l[i] = atom
    THEN CHOOSE i \in 1..Len(l) : l[i] = atom /\ \A j \in 1..(i - 1) : l[j] # atom
    ELSE 0

\* REX_SOURCE_LINE.match(line): the groups of the match, <<>> when there is none.
REX_SOURCE_LINE(line) ==
    LET l == LStripLine(line)
        p == FirstIndex(l, LineAtom)
    IN IF /\ l # <<>> /\ Head(l) = FileAtom
          /\ p >= 3 /\ l[p - 1] = ".py"
          /\ Len(l) >= p + 2 /\ l[p + 1] \in Numbers /\ l[p + 2] = InAtom
       THEN << SubSeq(line, 1, Len(line) - Len(l) + 1), SubSeq(l, 2, p - 1), << LineAtom >>,
               << l[p + 1] >>, << InAtom >>, SubSeq(l, p + 3, Len(l)) >>
       ELSE <<>>

\* A variant that never resets previous_was_source_line.
RECURSIVE GenLoop_FlagNeverReset(_, _, _)
GenLoop_FlagNeverReset(lines, i, previous_was_source_line) ==
    IF i > Len(lines) THEN <<>>
    ELSE LET line == lines[i]
             match == REX_SOURCE_LINE(line)
         IN IF match # <<>>
            THEN << match[1] \o << BRIGHT, BACK_GREEN >> \o match[2] \o << RESET_ALL >>
                    \o match[3] \o << BRIGHT, FORE_YELLOW >> \o match[4] \o << RESET_ALL >>
                    \o match[5] \o << BRIGHT, FORE_YELLOW >> \o match[6] \o << RESET_ALL >> >>
                 \o GenLoop_FlagNeverReset(lines, i + 1, TRUE)
            ELSE IF i = Len(lines) - 1 \/ previous_was_source_line
            THEN << << BRIGHT, FORE_RED >> \o line \o << RESET_ALL >> >>
                 \o GenLoop_FlagNeverReset(lines, i + 1, previous_was_source_line)
            ELSE << line >> \o GenLoop_FlagNeverReset(lines, i + 1, previous_was_source_line)

RECURSIVE GenLoop(_, _, _)
GenLoop(lines, i, previous_was_source_line) ==
    IF i > Len(lines) THEN <<>>
    ELSE LET line == lines[i]
             match == REX_SOURCE_LINE(line)
         IN IF match # <<>>
            THEN << match[1] \o << BRIGHT, BACK_GREEN >> \o match[2] \o << RESET_ALL >>
                    \o match[3] \o << BRIGHT, FORE_YELLOW >> \o match[4] \o << RESET_ALL >>
                    \o match[5] \o << BRIGHT, FORE_YELLOW >> \o match[6] \o << RESET_ALL >> >>
                 \o GenLoop(lines, i + 1, TRUE)
            ELSE IF i = Len(lines) - 1
            THEN << << BRIGHT, FORE_RED >> \o line \o << RESET_ALL >> >>
                 \o GenLoop(lines, i + 1, previous_was_source_line)
            ELSE IF previous_was_source_line
            THEN << << BRIGHT, FORE_RED >> \o line \o << RESET_ALL >> >>
                 \o GenLoop(lines, i + 1, FALSE)
            ELSE << line >> \o GenLoop(lines, i + 1, previous_was_source_line)

_gen_inject_colors(lines) == GenLoop(lines, 1, FALSE)

inject_colors(error_report) == _gen_inject_colors(error_report)

(***************************************************************************)
(* Inputs of the report functions.                                         *)
(***************************************************************************)
Limits == { NoLimit } \cup { Lim(n) : n \in 0..MaxLimit }

ShortChains == { c \in Chains : Len(c) <= MaxShort }

ExcName == <<"E">>

ExcMsg == <<"m">>

BadInfo == Info(2, ExcName, ExcMsg, <<>>)

Env(tb, tracebacklimit) ==
    [exc_info |-> Info(3, ExcName, ExcMsg, tb), tracebacklimit |-> tracebacklimit]

NoEnv == [exc_info |-> NoInfo, tracebacklimit |-> NoLimit]

Custom == Txt(<<"CUSTOM">>)

Exc(hasStored, hasExcInfo, exc_info) ==
    [cls |-> ExcName, msg |-> ExcMsg, hasStored |-> hasStored, stored |-> Custom,
     hasExcInfo |-> hasExcInfo, exc_info |-> exc_info]

Kwargs(limit, as_list, return_locals, skip_frames) ==
    [limit |-> limit, as_list |-> as_list, return_locals |-> return_locals,
     skip_frames |-> skip_frames, exception_info |-> NotGiven]

(***************************************************************************)
(* SpecReport: the functions of _error_report.py called directly.          *)
(***************************************************************************)
rvars == << call, result >>

dvars ==
    << self, usage, config, colorama, caught, ambient, pc, report, failure,
       pending, log, raised, sent >>

vars == << rvars, dvars >>

NoCall == [fn |-> "none"]

NoSelf == [cls |-> "none", target |-> "none", mode |-> "none", raises |-> FALSE]

NoConfig == [FROM_EMAIL |-> FALSE, FROM_PASSWORD |-> FALSE, TO_EMAILS |-> 0]

NoException == [some |-> FALSE, exc |-> Exc(FALSE, FALSE, NoInfo)]

NoFailure == [some |-> FALSE, from |-> "none", exc |-> NoExc]

Idle ==
    /\ self = NoSelf /\ usage = "none" /\ config = NoConfig /\ colorama = FALSE
    /\ caught = NoException /\ ambient = NoEnv
    /\ report = Ret("none", <<>>) /\ failure = NoFailure
    /\ pending = <<>> /\ log = <<>> /\ raised = NoException /\ sent = 0

InitReport == call = NoCall /\ result = Ret("none", <<>>) /\ Idle /\ pc = "unused"

CallExtract ==
    /\ call = NoCall
    /\ UNCHANGED dvars
    /\ \E tb \in Chains, limit \in Limits, tracebacklimit \in { NoLimit, Lim(1) } :
        /\ limit.set => ~tracebacklimit.set
        /\ call' = [fn |-> "_extract_traceback_list", traceback_ |-> tb, limit |-> limit,
                    tracebacklimit |-> tracebacklimit]
        /\ result' = Ret("entries", _extract_traceback_list(tb, limit, tracebacklimit))

CallKeyValueLine ==
    /\ call = NoCall
    /\ UNCHANGED dvars
    /\ \E key \in Keys, value \in Values :
        /\ call' = [fn |-> "_get_variable_key_value_line", key |-> key, value |-> value]
        /\ result' = Ret("str", _get_variable_key_value_line(key, value))

CallGetTraceback ==
    /\ call = NoCall
    /\ UNCHANGED dvars
    /\ \E tb \in Chains, limit \in Limits, as_list \in BOOLEAN, return_locals \in BOOLEAN,
       skip_frames \in 0..MaxSkip, given \in BOOLEAN, arity \in {2, 3} :
        /\ ~given => Len(tb) <= MaxShort
        /\ arity = 2 => tb = <<>>
        /\ LET info == Info(arity, ExcName, ExcMsg, tb)
               exception_info == IF given THEN Given(info) ELSE NotGiven
               env == IF given THEN NoEnv ELSE [exc_info |-> info, tracebacklimit |-> NoLimit]
           IN /\ call' = [fn |-> "get_traceback", limit |-> limit, as_list |-> as_list,
                          return_locals |-> return_locals, exception_info |-> exception_info,
                          skip_frames |-> skip_frames, env |-> env]
              /\ result' = get_traceback(limit, as_list, return_locals, exception_info,
                                         skip_frames, env)

CallGetErrorReport ==
    /\ call = NoCall
    /\ UNCHANGED dvars
    /\ \E hasStored \in BOOLEAN, hasExcInfo \in BOOLEAN, tb \in ShortChains, arity \in {2, 3},
       limit \in Limits, as_list \in BOOLEAN, return_locals \in BOOLEAN,
       skip_frames \in 0..MaxSkip :
        /\ arity = 2 => (hasExcInfo /\ tb = <<>>)
        /\ LET info == Info(arity, ExcName, ExcMsg, tb)
               exception == Exc(hasStored, hasExcInfo, IF hasExcInfo THEN info ELSE NoInfo)
               env == IF hasExcInfo THEN NoEnv ELSE Env(tb, NoLimit)
               kwargs == Kwargs(limit, as_list, return_locals, skip_frames)
           IN /\ call' = [fn |-> "get_error_report", exception |-> exception,
                          kwargs |-> kwargs, env |-> env]
              /\ result' = get_error_report(exception, kwargs, env)

ReportLines ==
    { HeaderLine(StdEntry(FrameF)),
      << FileAtom, "x", ".py", LineAtom, "2", InAtom >>,
      HeaderLine(StdEntry(FrameExec)),
      << "see", " " >> \o HeaderLine(StdEntry(FrameF)),
      Spaces(4) \o << "1/0" >>,
      <<>>,
      ExcName \o << ":", " " >> \o ExcMsg }

CallInjectColors ==
    /\ call = NoCall
    /\ UNCHANGED dvars
    /\ \E lines \in SeqsUpTo(ReportLines, MaxLines) :
        /\ lines # <<>>
        /\ call' = [fn |-> "inject_colors", error_report |-> lines]
        /\ result' = Ret("str", inject_colors(lines))

NextReport ==
    \/ CallExtract
    \/ CallKeyValueLine
    \/ CallGetTraceback
    \/ CallGetErrorReport

SpecReport == InitReport /\ [][NextReport]_vars

(***************************************************************************)
(* SpecColors: inject_colors applied to reports of every shape.            *)
(***************************************************************************)
SpecColors == InitReport /\ [][CallInjectColors]_vars

(***************************************************************************)
(* The dispatcher: logexc (logexc.py) and emaillogexc (emaillogexc.py).    *)
(***************************************************************************)
_get_mode(target) ==
    IF target = "exception_instance" THEN "call"
    ELSE IF target = "function" THEN "function_wrap"
    ELSE IF target = "exception_class" THEN "with_statement"
    ELSE "decorator"

TargetOf(u) ==
    IF u = "call" THEN "exception_instance"
    ELSE IF u = "function_wrap" THEN "function"
    ELSE "exception_class"

Usages == {"call", "function_wrap", "decorator", "with"}

ErrorMessage(e) == e.cls \o <<":", " ">> \o e.msg

\* A variant that loses the original error message.
ReportFailureLines_NoOriginal(exc, original_error_message) ==
    << << "Error generating error report." >>, exc.cls \o <<":", " ">> \o exc.msg >>

ReportFailureLines(exc, original_error_message) ==
    << << "Error generating error report." >>,
       exc.cls \o <<":", " ">> \o exc.msg \o <<" ", "[">> \o original_error_message \o <<"]">> >>

SkipFrames(mode) == IF mode = "function_wrap" THEN 1 ELSE 0

handle_error_report(error_report, colors_supported) ==
    IF colors_supported THEN inject_colors(error_report) ELSE error_report

ConfigValid(c) == c.FROM_EMAIL /\ c.FROM_PASSWORD /\ c.TO_EMAILS # 0

_validate_settings(c) ==
    IF ~c.FROM_EMAIL THEN Raise(<<"ValueError">>, <<"emaillogexc.FROM_EMAIL not set.">>)
    ELSE IF ~c.FROM_PASSWORD THEN Raise(<<"ValueError">>, <<"emaillogexc.FROM_PASSWORD not set.">>)
    ELSE IF c.TO_EMAILS = 0 THEN Raise(<<"ValueError">>, <<"emaillogexc.TO_EMAILS not set.">>)
    ELSE Ret("none", <<>>)

Configs ==
    { [FROM_EMAIL |-> TRUE, FROM_PASSWORD |-> TRUE, TO_EMAILS |-> 1],
      [FROM_EMAIL |-> FALSE, FROM_PASSWORD |-> TRUE, TO_EMAILS |-> 1],
      [FROM_EMAIL |-> TRUE, FROM_PASSWORD |-> FALSE, TO_EMAILS |-> 1],
      [FROM_EMAIL |-> TRUE, FROM_PASSWORD |-> TRUE, TO_EMAILS |-> 0],
      NoConfig }

FrameCallWrap ==
    Frame(<<"logexc", ".py">>, "207", "_call_function_wrap",
          Spaces(12) \o <<"return self._target(*decorator_args, **decorator_kwargs)">>,
          << << <<"a">>, IntOne >> >>)

FrameWrappedFn ==
    Frame(<<"logexc", ".py">>, "198", "wrapped_fn",
          Spaces(16) \o <<"return function_or_class(*a, **kwa)">>,
          << << <<"a">>, IntOne >> >>)

WrapperFrames(u) ==
    IF u = "function_wrap" THEN << FrameCallWrap >>
    ELSE IF u = "decorator" THEN << FrameWrappedFn >>
    ELSE <<>>

UserChains == { << FrameG >>, << FrameF, FrameExec >> }

ExcScenarios ==
    { Exc(FALSE, FALSE, NoInfo),
      Exc(TRUE, FALSE, NoInfo),
      Exc(FALSE, TRUE, Info(3, ExcName, ExcMsg, << FrameG >>)),
      Exc(FALSE, TRUE, BadInfo),
      Exc(TRUE, TRUE, BadInfo) }

RaisedExc(e) ==
    [some |-> TRUE,
     exc |-> [cls |-> e.cls, msg |-> e.msg, hasStored |-> FALSE, stored |-> Custom,
              hasExcInfo |-> FALSE, exc_info |-> NoInfo]]

Init ==
    /\ call = NoCall /\ result = Ret("none", <<>>)
    /\ Idle
    /\ pc = "start"

\* logexc.__init__ (and through it emaillogexc.__init__ up to its validation).
Construct ==
    /\ pc = "start"
    /\ \E u \in Usages, cls \in {"logexc", "emaillogexc"}, raises \in BOOLEAN,
          colors \in BOOLEAN, cfg \in Configs, e \in ExcScenarios,
          env \in { Env(tb, NoLimit) : tb \in UserChains } \cup { NoEnv } :
        /\ (cls = "logexc") = (cfg = NoConfig)
        /\ u # "call" => (e = Exc(FALSE, FALSE, NoInfo) /\ env = NoEnv)
        /\ self' = [cls |-> cls, target |-> TargetOf(u), mode |-> _get_mode(TargetOf(u)),
                    raises |-> raises]
        /\ usage' = u /\ config' = cfg /\ colorama' = colors
        /\ IF _get_mode(TargetOf(u)) = "call"
           THEN caught' = [some |-> TRUE, exc |-> e] /\ ambient' = env /\ pc' = "handle"
           ELSE caught' = caught /\ ambient' = ambient /\ pc' = "validate"
    /\ UNCHANGED << report, failure, pending, log, raised, sent, rvars >>

\* emaillogexc.__init__, after logexc.__init__ has returned.
Validate ==
    /\ pc = "validate"
    /\ IF self.cls = "emaillogexc" /\ ~_validate_settings(config).ok
       THEN raised' = RaisedExc(_validate_settings(config).exc) /\ pc' = "done"
       ELSE raised' = raised /\ pc' = (IF self.mode = "call" THEN "done" ELSE "ready")
    /\ UNCHANGED << self, usage, config, colorama, caught, ambient, report, failure,
                    pending, log, sent, rvars >>

\* The wrapped function, or the body of the with statement, runs.
Invoke ==
    /\ pc = "ready"
    /\ \/ pc' = "done" /\ UNCHANGED << caught, ambient, raised >>
       \/ \E e \in ExcScenarios, tb \in UserChains :
              /\ caught' = [some |-> TRUE, exc |-> e]
              /\ ambient' = Env(WrapperFrames(usage) \o tb, NoLimit)
              /\ pc' = "handle"
              /\ UNCHANGED raised
       \/ \E e \in ExcScenarios :
              /\ raised' = [some |-> TRUE, exc |-> e]
              /\ pc' = "done"
              /\ UNCHANGED << caught, ambient >>
    /\ UNCHANGED << self, usage, config, colorama, report, failure, pending, log, sent, rvars >>

\* _handle_exception up to the first line handed to the log sink.
HandleException ==
    /\ pc = "handle"
    /\ LET skip_frames == SkipFrames(self.mode)
           r == get_error_report(caught.exc, Kwargs(Lim(DefaultLimit), FALSE, TRUE, skip_frames),
                                 ambient)
       IN /\ report' = r
          /\ IF r.ok
             THEN /\ pending' = handle_error_report(r.v, colorama)
                  /\ failure' = failure
                  /\ pc' = "log"
             ELSE /\ pending' = pending
                  /\ failure' = [some |-> TRUE, from |-> "get_error_report", exc |-> r.exc]
                  /\ pc' = "report_failed"
    /\ UNCHANGED << self, usage, config, colorama, caught, ambient, log, raised, sent, rvars >>

\* One turn of the loop of handle_error_report.
LogLine ==
    /\ pc = "log"
    /\ log' = Append(log, Head(pending))
    /\ pending' = Tail(pending)
    /\ pc' = (IF Tail(pending) # <<>> THEN "log"
              ELSE IF self.cls = "emaillogexc" THEN "send" ELSE "handled")
    /\ UNCHANGED << self, usage, config, colorama, caught, ambient, report, failure, raised,
                    sent, rvars >>

\* emaillogexc._send_email: an error of the transport is raised again.
SendEmail ==
    /\ pc = "send"
    /\ sent' = sent + 1
    /\ \E delivered \in BOOLEAN :
        /\ delivered => ConfigValid(config)
        /\ IF delivered
           THEN failure' = failure /\ pc' = "handled"
           ELSE /\ failure' = [some |-> TRUE, from |-> "handle_error_report",
                               exc |-> [cls |-> <<"SMTPException">>, msg |-> <<"failed">>]]
                /\ pc' = "report_failed"
    /\ UNCHANGED << self, usage, config, colorama, caught, ambient, report, pending, log,
                    raised, rvars >>

\* The except clause of _handle_exception.
LogFailure ==
    /\ pc = "report_failed"
    /\ log' = log \o ReportFailureLines(failure.exc, ErrorMessage(caught.exc))
    /\ pc' = "handled"
    /\ UNCHANGED << self, usage, config, colorama, caught, ambient, report, failure, pending,
                    raised, sent, rvars >>

\* _handle_exception returns into __init__ (call mode).
ReturnToInit ==
    /\ pc = "handled" /\ self.mode = "call"
    /\ pc' = "validate"
    /\ UNCHANGED << self, usage, config, colorama, caught, ambient, report, failure, pending,
                    log, raised, sent, rvars >>

\* _handle_exception returns into a wrapper or __exit__, with raises set.
Reraise ==
    /\ pc = "handled" /\ self.mode # "call" /\ self.raises
    /\ raised' = caught
    /\ pc' = "done"
    /\ UNCHANGED << self, usage, config, colorama, caught, ambient, report, failure, pending,
                    log, sent, rvars >>

\* ... with raises not set: the exception is swallowed.
Swallow ==
    /\ pc = "handled" /\ self.mode # "call" /\ ~self.raises
    /\ pc' = "done"
    /\ UNCHANGED << self, usage, config, colorama, caught, ambient, report, failure, pending,
                    log, raised, sent, rvars >>

Next ==
    \/ Construct
    \/ Validate
    \/ Invoke
    \/ HandleException
    \/ LogLine
    \/ SendEmail
    \/ LogFailure
    \/ ReturnToInit
    \/ Reraise
    \/ Swallow

Spec == Init /\ [][Next]_vars

(***************************************************************************)
(* Properties of the report functions (checked under SpecReport).          *)
(***************************************************************************)
RECURSIVE Flatten(_)
Flatten(list) == IF list = <<>> THEN <<>> ELSE Head(list) \o Flatten(Tail(list))

AllLines(r) == IF r.ty = "list" THEN Flatten(r.v) ELSE r.v

IsHeader(line) == LStripLine(line) # <<>> /\ Head(LStripLine(line)) = FileAtom

Headers(lines) == SelectSeq(lines, IsHeader)

Contains(lines, sub) ==
    \E i \in 1..(Len(lines) + 1) :
        i + Len(sub) - 1 <= Len(lines) /\ SubSeq(lines, i, i + Len(sub) - 1) = sub

IsRunpyBootstrap(f) ==
    /\ Len(f.filename) >= 2
    /\ f.filename[Len(f.filename) - 1] = "runpy" /\ f.filename[Len(f.filename)] = ".py"
    /\ (f.name = "_run_module_as_main" \/ f.name = "_run_code")

NotBootstrap(f) == ~IsRunpyBootstrap(f)

Min(a, b) == IF a <= b THEN a ELSE b

\* The frames a rich report is about: the first `limit` frames that are not
\* bootstrap frames, less the first `skip` of them.
Reported(tb, limit, skip) ==
    LET user == SelectSeq(tb, NotBootstrap)
        kept == IF limit.set THEN SubSeq(user, 1, Min(limit.n, Len(user))) ELSE user
    IN Drop(skip, kept)

SameFrame(e, f) == e.filename = f.filename /\ e.lineno = f.lineno /\ e.name = f.name

CallTb == IF call.exception_info.given THEN call.exception_info.info.tb ELSE call.env.exc_info.tb

IsTracebackCall == call.fn = "get_traceback" /\ result.ok

\* The lines "    key = <formatted value>" of one local variable.
LocalLines(item) == Tail(_get_variable_key_value_line(item[1], item[2]))

Shown(item) == ~IsDunder(item[1]) /\ item[2].cls # "module"

\* C1: _extract_traceback_list(tb, N) returns exactly the first min(N, m) frames
\* that are not runpy bootstrap frames, in chain order (skipped bootstrap frames
\* do not count against N), so a report holds at most N frame headers.
C1_LimitCountsOnlyUserFrames ==
    /\ (call.fn = "_extract_traceback_list" /\ call.limit.set) =>
           LET want == Reported(call.traceback_, call.limit, 0)
           IN /\ Len(result.v) = Len(want)
              /\ \A i \in 1..Len(want) : SameFrame(result.v[i], want[i])
    /\ (IsTracebackCall /\ call.limit.set) =>
           Len(Headers(AllLines(result))) <= call.limit.n

C1_Witness ==
    /\ call.fn = "_extract_traceback_list" /\ call.limit.set /\ call.limit.n = 1
    /\ Len(call.traceback_) = 3
    /\ IsRunpyBootstrap(call.traceback_[1])
    /\ NotBootstrap(call.traceback_[2]) /\ NotBootstrap(call.traceback_[3])
    /\ Len(result.v) = 1 /\ SameFrame(result.v[1], call.traceback_[2])

\* C2: skip_frames = k removes exactly the first k frames of the extracted,
\* limited frame sequence and nothing else, in rich and in plain mode, for
\* as_list and joined output.
C2_SkipRemovesFirstFrames ==
    IsTracebackCall =>
        LET unskipped == get_traceback(call.limit, call.as_list, call.return_locals,
                                       call.exception_info, 0, call.env)
        IN /\ Headers(AllLines(result)) = Drop(call.skip_frames, Headers(AllLines(unskipped)))
           /\ Contains(AllLines(unskipped), << << TracebackHeader >> >>)
                  => Contains(AllLines(result), << << TracebackHeader >> >>)

\* C2 restricted to rich mode (return_locals = True).
C2_RichSkipRemovesFirstFrames == (IsTracebackCall /\ call.return_locals) => C2_SkipRemovesFirstFrames

\* C3: with a stored_report the dispatcher entry returns it unchanged for every
\* combination of options; nothing is extracted or appended, also when the
\* exception carries an exc_info attachment (even one get_traceback rejects).
C3_StoredReportVerbatim ==
    (call.fn = "get_error_report" /\ call.exception.hasStored) =>
        /\ result.ok
        /\ result.ty = "stored"
        /\ result.v = call.exception.stored

C3_Witness ==
    /\ call.fn = "get_error_report"
    /\ call.exception.hasStored /\ call.exception.hasExcInfo
    /\ call.exception.exc_info.arity = 2
    /\ call.kwargs.as_list /\ call.kwargs.skip_frames = 1
    /\ result.ok /\ result.v = Custom

\* C4: for every frame of a rich report, whether or not its source line
\* resolves, every local that is neither a dunder name nor a module has its
\* line "x = <formatted v>" in that frame's block.
C4_EveryFrameListsLocals ==
    (IsTracebackCall /\ call.return_locals) =>
        LET frames == Reported(CallTb, call.limit, call.skip_frames)
        IN \A i \in 1..Len(frames) : \A j \in 1..Len(frames[i].locals) :
               Shown(frames[i].locals[j]) =>
                   IF call.as_list
                   THEN i <= Len(result.v) /\ Contains(result.v[i], LocalLines(frames[i].locals[j]))
                   ELSE Contains(result.v, LocalLines(frames[i].locals[j]))

\* C4 restricted to the frames whose source line resolves.
C4_ResolvedFramesListLocals ==
    (IsTracebackCall /\ call.return_locals) =>
        LET frames == Reported(CallTb, call.limit, call.skip_frames)
        IN \A i \in 1..Len(frames) : \A j \in 1..Len(frames[i].locals) :
               (Shown(frames[i].locals[j]) /\ frames[i].src # <<>>) =>
                   IF call.as_list
                   THEN i <= Len(result.v) /\ Contains(result.v[i], LocalLines(frames[i].locals[j]))
                   ELSE Contains(result.v, LocalLines(frames[i].locals[j]))

\* Whether formatting `value` raises: pprint propagates what repr raises; for a
\* WindowsPath a ValueError of repr is answered with as_posix, which may raise.
FormattingRaises(value) ==
    IF value.cls = "WindowsPath"
    THEN \/ value.reprRaises = "ValueError" /\ value.posixRaises
         \/ value.reprRaises \notin {"none", "ValueError"}
    ELSE value.reprRaises # "none"

FallbackLine(key, value) ==
    Spaces(4) \o key \o << " = ", "-Can't print value-", " ", "[", value.cls, "]" >>

ExpectedLines(item) ==
    IF FormattingRaises(item[2]) THEN << FallbackLine(item[1], item[2]) >> ELSE LocalLines(item)

CallInfo == IF call.exception_info.given THEN call.exception_info.info ELSE call.env.exc_info

\* C5: when formatting a local's value raises, _get_variable_key_value_line
\* returns "    name = -Can't print value- [<TypeName>]" and nothing propagates:
\* the extraction goes on with the other variables and frames and completes.
C5_UnprintableValueFallback ==
    /\ (call.fn = "_get_variable_key_value_line" /\ FormattingRaises(call.value)) =>
           /\ result.ok
           /\ result.v = << <<>>, FallbackLine(call.key, call.value) >>
    /\ (call.fn = "get_traceback" /\ call.return_locals /\ CallInfo.arity = 3) =>
           /\ result.ok
           /\ LET frames == Reported(CallTb, call.limit, call.skip_frames)
              IN /\ Len(Headers(AllLines(result))) = Len(frames)
                 /\ call.as_list =>
                        /\ Len(result.v) = Len(frames)
                        /\ \A i \in 1..Len(frames) : \A j \in 1..Len(frames[i].locals) :
                               (Shown(frames[i].locals[j]) /\ frames[i].src # <<>>) =>
                                   Contains(result.v[i], ExpectedLines(frames[i].locals[j]))

C5_Witness ==
    /\ IsTracebackCall /\ call.return_locals /\ call.as_list
    /\ Reported(CallTb, call.limit, call.skip_frames) = << FrameG, FrameF >>
    /\ Len(result.v) = 2
    /\ Contains(result.v[1], << FallbackLine(<<"x">>, Unprintable) >>)
    /\ Contains(result.v[1], LocalLines(<< <<"y">>, WinPathOld >>))
    /\ Contains(result.v[2], LocalLines(<< <<"a", "b">>, IntOne >>))

\* C9: with as_list = True get_traceback returns one string per report line (no
\* element holds a line break or trailing whitespace), and get_error_report
\* returns that sequence followed by the summary line as its single last element.
C9_AsListOneStringPerLine ==
    /\ (IsTracebackCall /\ call.as_list) =>
           /\ result.ty = "list"
           /\ \A i \in 1..Len(result.v) :
                  Len(result.v[i]) = 1 /\ RStrip(result.v[i]) = result.v[i]
    /\ (call.fn = "get_error_report" /\ result.ok /\ ~call.exception.hasStored
            /\ call.kwargs.as_list) =>
           LET exception_info ==
                   IF call.exception.hasExcInfo THEN Given(call.exception.exc_info)
                   ELSE NotGiven
               tb == get_traceback(call.kwargs.limit, TRUE, call.kwargs.return_locals,
                                   exception_info, call.kwargs.skip_frames, call.env)
           IN /\ result.ty = "list"
              /\ result.v = tb.v \o << Txt(call.exception.cls \o <<":", " ">> \o call.exception.msg) >>

\* The second half of C9 alone: the summary is the single last element.
C9_SummaryIsLastElement ==
    (call.fn = "get_error_report" /\ result.ok /\ ~call.exception.hasStored
        /\ call.kwargs.as_list) =>
        /\ result.ty = "list"
        /\ result.v # <<>>
        /\ result.v[Len(result.v)] = Txt(call.exception.cls \o <<":", " ">> \o call.exception.msg)

(***************************************************************************)
(* Properties of the colour post-processor (checked under SpecColors).     *)
(***************************************************************************)
\* 'File "<path>.py", line <N>, in <name>', after any number of blanks.
IsSourceLine(line) ==
    LET l == LStripLine(line) IN
    \E n \in 2..Len(l) :
        /\ l[1] = FileAtom /\ l[n] = ".py"
        /\ \A k \in 2..n : l[k] # LineAtom
        /\ Len(l) >= n + 3
        /\ l[n + 1] = LineAtom /\ l[n + 2] \in Numbers /\ l[n + 3] = InAtom

FollowsMatch(lines, i) ==
    \E j \in 1..Len(lines) : IsSourceLine(lines[j]) /\ j < i /\ i <= j + 2

\* C10 as stated: markup goes only to lines matching the pattern and to the two
\* lines that follow a match; every other line, whatever its position, is
\* emitted unchanged.
C10_OnlySourceLinesAndFollowers ==
    call.fn = "inject_colors" =>
        /\ Len(result.v) = Len(call.error_report)
        /\ \A i \in 1..Len(call.error_report) :
               result.v[i] # call.error_report[i] =>
                   IsSourceLine(call.error_report[i]) \/ FollowsMatch(call.error_report, i)

\* C10 amended: ... and to the second-to-last line of the report.
C10_AlsoSecondToLastLine ==
    call.fn = "inject_colors" =>
        /\ Len(result.v) = Len(call.error_report)
        /\ \A i \in 1..Len(call.error_report) :
               result.v[i] # call.error_report[i] =>
                   \/ IsSourceLine(call.error_report[i])
                   \/ FollowsMatch(call.error_report, i)
                   \/ i = Len(call.error_report) - 1

C10_Witness ==
    /\ call.fn = "inject_colors"
    /\ Len(call.error_report) = 4
    /\ \A i \in 1..4 : ~IsSourceLine(call.error_report[i])
    /\ result.v[3] = << BRIGHT, FORE_RED >> \o call.error_report[3] \o << RESET_ALL >>
    /\ \A i \in {1, 2, 4} : result.v[i] = call.error_report[i]

(***************************************************************************)
(* Properties of the dispatcher (checked under Spec).                      *)
(***************************************************************************)
\* C6: when get_error_report raises inside _handle_exception the error is
\* caught, nothing escapes, and the log sink receives exactly two lines:
\* 'Error generating error report.' and
\* '<SecondaryType>: <secondary message> [<OriginalType>: <original message>]'.
C6_ReportFailureIsLogged ==
    /\ ~report.ok => failure.some /\ failure.exc = report.exc
    /\ (pc = "handled" /\ ~report.ok) =>
           /\ ~raised.some
           /\ log = << << "Error generating error report." >>,
                       report.exc.cls \o << ":", " " >> \o report.exc.msg \o << " ", "[" >>
                           \o caught.exc.cls \o << ":", " " >> \o caught.exc.msg \o << "]" >> >>

C6_Witness ==
    /\ pc = "handled" /\ ~report.ok
    /\ self.mode = "function_wrap" /\ self.raises
    /\ report.exc.cls = << "ValueError" >>
    /\ Len(log) = 2

\* C7: with raises = True, in every invocation mode (direct call, function wrap
\* or decorator, with statement) a caught matching exception is raised again as
\* the same object, and only after every line of its report went to the log
\* sink; with raises = False it is never raised again.
C7_RaisesRethrowsAfterLogging ==
    /\ (raised.some /\ raised = caught) =>
           /\ pending = <<>>
           /\ report.ok =>
                  SubSeq(log, 1, Len(report.v)) = handle_error_report(report.v, colorama)
    /\ (pc = "done" /\ caught.some /\ self.raises) => raised = caught
    /\ (pc = "done" /\ caught.some /\ ~self.raises) => raised # caught

\* C7 for the modes other than the direct call.
C7_WrappersRethrowAfterLogging ==
    self.mode # "call" => C7_RaisesRethrowsAfterLogging

\* C8: constructing emaillogexc with missing configuration fails with ValueError
\* before any exception handling: in every invocation mode no report is
\* generated or logged and no e-mail send is attempted.
C8_ValidationBeforeHandling ==
    (self.cls = "emaillogexc" /\ ~ConfigValid(config)) =>
        /\ log = <<>>
        /\ sent = 0
        /\ report = Ret("none", <<>>)
        /\ pc = "done" => (raised.some /\ raised.exc.cls = << "ValueError" >>)

\* C8 for the modes other than the direct call.
C8_WrappersValidateBeforeHandling ==
    self.mode # "call" => C8_ValidationBeforeHandling

====
